---------------------------- MODULE Spec2Model ----------------------------
(***************************************************************************)
(* Orbital-mechanics kernel of AsteroidClustering (src/functions.py):      *)
(* position_at_adalia_day, calculate_orbital_period,                       *)
(* get_current_adalia_day, apply_position_to_df and load_asteroids.        *)
(*                                                                         *)
(* Numbers.  Python floats are IEEE doubles; TLC has 32-bit integers.      *)
(*   - Angles and dimensionless numbers are fixed point with 28 fraction   *)
(*     bits (One = 2^28, one unit = 3.7e-9).                               *)
(*   - An angle that may be large (the mean anomaly M, the eccentric       *)
(*     anomaly E) is a record [turns, rad]: the real number                *)
(*     2*pi*turns + rad/One.  sin and tan(./2) see only rad (their range   *)
(*     reduction), the spacing of the doubles around the value is decided  *)
(*     by its magnitude (Ulp).  For |M| >= 2^24 that spacing is a whole    *)
(*     number of units, and the sum M + x is rounded to it exactly as the  *)
(*     double addition does; below 2^24 the doubles are finer than one     *)
(*     unit and the unit is the grid.                                      *)
(*   - Lengths (a, r, x, y, z) are fixed point with 16 fraction bits; the  *)
(*     semi-major axis of a record is given in hundredths of an AU.        *)
(*   - A quotient that is unbounded (tan, (1+e)/(1-e)) is a pair           *)
(*     [num, den].                                                         *)
(* A Python call either returns or raises:                                 *)
(* [kind |-> "return", val |-> x] or [kind |-> "raise", exc |-> name].     *)
(* The loop of lines 44-47 is followed one pass at a time.                 *)
(***************************************************************************)
EXTENDS Integers, Sequences, FiniteSets, TLC

VARIABLES
    \* ---- the world
    now,        \* the clock: seconds since 1970-01-01T00:00:00Z
    ticks,      \* how often the clock has moved on
    \* ---- the call being followed
    entry,      \* the function the caller called
    file,       \* load_asteroids: the lines of the file
    pc,         \* where control is
    outcome,    \* how the call ended
    \* ---- load_asteroids and apply_position_to_df
    df,         \* the table
    given,      \* the table as apply_position_to_df received it
    curr_aday,  \* line 97
    clockReads, \* how often pendulum.now() has been called
    idx,        \* the element of df['orbital'] the comprehension is at
    acc,        \* the list the comprehension has built
    trace,      \* the calls of position_at_adalia_day that have returned:
                \* their arguments and their value
    \* ---- position_at_adalia_day
    args,       \* the arguments of the call
    M,          \* mean anomaly at elapsed time, [turns, rad]
    e,          \* eccentricity, units of 1/One
    E,          \* current estimate of the eccentric anomaly, [turns, rad]
    last_diff,  \* |E1 - E| of the last iteration, units of 1/One
    v,          \* the true anomaly, line 50
    iters,      \* how many times the loop body has run, counted to IterCap
    seen,       \* the values E has had at the while test with the test true
    spc,        \* "idle": no call; "loop": at the while test; "done": past
                \* the loop, at line 50; "polar": at line 51
    \* ---- get_current_adalia_day and calculate_orbital_period on their own
    calls,      \* the calls of get_current_adalia_day: flag, time, value
    queries,    \* the semi-major axes calculate_orbital_period is asked
    answers     \* what it answered

worldVars == <<now, ticks>>
callVars == <<entry, file, pc, outcome>>
batchVars == <<df, given, curr_aday, clockReads, idx, acc, trace>>
solverVars == <<M, e, E, last_diff, iters, seen, spc>>
frameVars == <<args, v>>
aloneVars == <<calls, queries, answers>>
vars == <<worldVars, callVars, batchVars, solverVars, frameVars, aloneVars>>

-----------------------------------------------------------------------------
(* Fixed-point arithmetic *)

One == 268435456
\* One = HalfOne^2, LOne = HalfLOne^2.
HalfOne == 16384
LOne == 65536
HalfLOne == 256

Abs(x) == IF x < 0 THEN -x ELSE x
Sgn(x) == IF x < 0 THEN -1 ELSE 1

\* a * b / One rounded to nearest, for 0 <= a, b <= 4 * One.
MulU(a, b) ==
    LET a1 == a \div HalfOne
        a0 == a % HalfOne
        b1 == b \div HalfOne
        b0 == b % HalfOne
    IN a1 * b1
       + (a1 * b0 + a0 * b1 + (a0 * b0 + HalfOne \div 2) \div HalfOne
          + HalfOne \div 2) \div HalfOne

Mul(a, b) == Sgn(a) * Sgn(b) * MulU(Abs(a), Abs(b))

\* The one element of a one-element set.
The(S) == CHOOSE r \in S : TRUE

\* F of x, with x evaluated to a value first.
Eval(x, F(_)) == The({F(t) : t \in {x}})

\* F applied 2^n times to s.  Each half is evaluated to a value before the
\* other starts, so the evaluation nests n deep, not 2^n.
RECURSIVE Iterate(_, _, _)
Iterate(F(_), n, s) ==
    IF n = 0 THEN F(s)
    ELSE The({Iterate(F, n - 1, t) : t \in {Iterate(F, n - 1, s)}})

TopBit == 1073741824

\* One bit of b, from the top: s = <<q, r, bit>> with q * c + r = a * (the
\* bits of b above `bit`).
MulDivStep(a, b, c, s) ==
    IF s[3] = 0 THEN s
    ELSE LET on == (b \div s[3]) % 2
             r == 2 * s[2] + on * (a % c)
         IN <<2 * s[1] + on * (a \div c) + r \div c, r % c, s[3] \div 2>>

\* floor(a * b / c) for a, b >= 0 and 0 < c <= 2^29: no intermediate exceeds
\* 3 * c or the result.
MulDiv(a, b, c) ==
    Iterate(LAMBDA s : MulDivStep(a, b, c, s), 5, <<0, 0, TopBit>>)[1]

\* a * b / c truncated toward zero, any signs of a and b, c > 0.
SMulDiv(a, b, c) == Sgn(a) * Sgn(b) * MulDiv(Abs(a), Abs(b), c)

\* One halving of the interval s = <<lo, hi>> towards the largest y in it
\* with Below(y).
BisectStep(Below(_), s) ==
    IF s[1] >= s[2] THEN s
    ELSE LET mid == (s[1] + s[2] + 1) \div 2
         IN IF Below(mid) THEN <<mid, s[2]>> ELSE <<s[1], mid - 1>>

\* The largest y in lo..hi with Below(y), for Below true at lo and
\* downward closed; hi - lo < 2^(2^n).
Bisect(Below(_), n, lo, hi) ==
    Iterate(LAMBDA s : BisectStep(Below, s), n, <<lo, hi>>)[1]

\* floor(sqrt(v)) for 0 <= v < 2^31.
ISqrt(x) == Bisect(LAMBDA y : y * y <= x, 4, 0, 46340)

\* ceiling(y * y / (h * h)) for y >= 0 with 2 * (y \div h) * h < 2^31.
SquareOver(y, h) ==
    LET y1 == y \div h
        y0 == y % h
    IN y1 * y1 + (2 * y1 * y0 + (y0 * y0 + h * h - 1) \div h) \div h

\* sqrt of a fixed-point number v >= 0 with scale h * h, rounded down: the
\* largest y with y * y <= v * h * h.
FixSqrt(x, h) ==
    Bisect(LAMBDA y : SquareOver(y, h) <= x, 5, 0, (ISqrt(x) + 1) * h)

-----------------------------------------------------------------------------
(* math.sin, math.cos on fixed-point radians *)

Pi == 843314857
TwoPi == 1686629713
HalfPi == 421657428

\* One step of Horner's rule, s = <<j, acc>>:
\* acc := 1 - z / (2j * (2j + 1)) * acc.
HornerStep(z, s) ==
    IF s[1] = 0 THEN s
    ELSE <<s[1] - 1, One - Mul(z, s[2]) \div ((2 * s[1]) * (2 * s[1] + 1))>>

\* The Taylor series of sin(r) / r in z = r^2, 8 terms:
\* 1 - z/(2*3) * (1 - z/(4*5) * (1 - ... )).
SinSeries(z) == Iterate(LAMBDA s : HornerStep(z, s), 3, <<8, One>>)[2]

SinCore(r) == Mul(r, SinSeries(Mul(r, r)))

\* sin(x / One) * One, any x: reduced to [-pi/2, pi/2] first.
sin(x) ==
    LET t == x % TwoPi
    IN IF t <= HalfPi THEN SinCore(t)
       ELSE IF t <= Pi + HalfPi THEN SinCore(Pi - t)
       ELSE SinCore(t - TwoPi)

cos(x) == sin((x % TwoPi) - Pi - HalfPi)

-----------------------------------------------------------------------------
(* Doubles around a large angle *)

Angle(t, r) == [turns |-> t, rad |-> r]

\* floor(|2*pi*turns + rad|), within one.
Magnitude(A) ==
    IF A.turns >= 0 THEN MulDiv(A.turns, TwoPi, One) + A.rad \div One
    ELSE MulDiv(-A.turns, TwoPi, One) - A.rad \div One

\* The spacing of the doubles in the binade of a number whose integer part
\* is w, in units of 1/One: 2^(exponent - 52) * 2^28, and 1 (the resolution
\* of this model) where the doubles are finer than that.
RECURSIVE UlpOf(_)
UlpOf(w) == IF w < 33554432 THEN 1 ELSE 2 * UlpOf(w \div 2)

Ulp(A) == UlpOf(Magnitude(A))

\* x rounded to the nearest multiple of g.
RoundTo(x, g) == ((x + g \div 2) \div g) * g

\* The double A + x for |x| <= 1: the nearest double to the sum.  A is a
\* double, so the result differs from A by a whole number of spacings.
FlAdd(A, x) == Angle(A.turns, A.rad + RoundTo(x, Ulp(A)))

\* The double difference A - B of two nearby doubles (exact).
FlSub(A, B) == A.rad - B.rad

-----------------------------------------------------------------------------
(* position_at_adalia_day, lines 40-47: the iterative approximation of the *)
(* eccentric anomaly                                                       *)

\* 0.0000001 of line 44: floor(1e-7 * One).  A difference d (a whole number
\* of units) is > 1e-7 exactly when d > Tol.
Tol == 26

\* A fault to tell apart from line 42: the loop entered with last_diff = 0,
\* so that its body never runs.
InitialDiffZero == One - One

\* last_diff = 1, line 42.
InitialDiff == One

\* A fault to tell apart from line 44: a tolerance of 1e-4.
LoopContinuesLoosely(d) == d > 1000 * Tol

\* The while test of line 44.
LoopContinues(d) == d > Tol

\* E1 = M + (e * sin(E)), line 45.
KeplerStep(Mv, ev, Ev) == FlAdd(Mv, Mul(ev, sin(Ev.rad)))

\* np.abs(E1 - E), line 46.
StepDiff(E1, Ev) == Abs(FlSub(E1, Ev))

-----------------------------------------------------------------------------
(* math.sqrt, math.tan, math.atan and / on quotients [num, den] *)

Ratio(nm, dn) == [num |-> nm, den |-> dn]

\* Is the quotient negative?
RatioNegative(q) == q.num # 0 /\ Sgn(q.num) # Sgn(q.den)

\* sqrt of a non-negative quotient of fixed-point numbers.
RatioSqrt(q) ==
    Ratio(FixSqrt(Abs(q.num), HalfOne), FixSqrt(Abs(q.den), HalfOne))

\* tan(E / 2) of an angle E = 2*pi*turns + rad: tan has period pi, so only
\* rad / 2 counts.
TanHalf(A) == Ratio(sin(A.rad \div 2), cos(A.rad \div 2))

RatioMul(p, q) == Ratio(Mul(p.num, q.num), Mul(p.den, q.den))

\* The largest angle t in 0..pi/2 with tan(t) <= nm / dn, for nm, dn >= 0.
AtanIn(nm, dn) ==
    Bisect(LAMBDA y : Mul(sin(y), dn) <= Mul(cos(y), nm), 5, 0, HalfPi)

\* atan(num / den), in [-pi/2, pi/2].
atan(q) ==
    IF q.den = 0 THEN Sgn(q.num) * HalfPi
    ELSE Sgn(q.num) * Sgn(q.den) * AtanIn(Abs(q.num), Abs(q.den))

\* The angle 2*pi*t + r for any r >= 0, with rad brought into [0, 2*pi).
AngleNorm(t, r) == Angle(t + r \div TwoPi, r % TwoPi)

\* The sum of two angles with rad in [0, 2*pi).
AngleSum(A, B) ==
    IF A.rad >= TwoPi - B.rad
    THEN Angle(A.turns + B.turns + 1, A.rad - (TwoPi - B.rad))
    ELSE Angle(A.turns + B.turns, A.rad + B.rad)

\* One bit of h, from the top: s = <<A, bit>> with A = x * (the bits of h
\* above `bit`).
AngleScaleStep(x, h, s) ==
    IF s[2] = 0 THEN s
    ELSE LET dbl == AngleSum(s[1], s[1])
         IN <<IF (h \div s[2]) % 2 = 1 THEN AngleSum(dbl, Angle(0, x))
              ELSE dbl,
              s[2] \div 2>>

\* h times the angle x (0 <= x < 2*pi), h >= 0 whole, by doubling.
AngleScale(x, h) ==
    Iterate(LAMBDA s : AngleScaleStep(x, h, s), 5, <<Angle(0, 0), TopBit>>)[1]

\* x * t for a rational time t = num / den >= 0 and 0 <= x < 2*pi.
AngleTimes(x, t) ==
    AngleSum(AngleScale(x, t.num \div t.den),
             Angle(0, MulDiv(x, t.num % t.den, t.den)))

-----------------------------------------------------------------------------
(* position_at_adalia_day, lines 14-57 *)

\* Astronomical Unit multiplier, line 11: 149.597871 * LOne.
AU_MULTIPLIER == 9804046

\* Gaussian constant, line 34: 0.01720209895 * One.
k == 4617653

Return(x) == [kind |-> "return", val |-> x]
Raise(x) == [kind |-> "raise", exc |-> x]

\* A semi-major axis in hundredths of an AU as a length.
Length(a) == SMulDiv(a, LOne, 100)

\* pow(a, 3), line 35.
pow3(aL) == SMulDiv(SMulDiv(aL, aL, LOne), aL, LOne)

\* A fault to tell apart from line 104: the element is given a time of its
\* own, an hour after the shared one.
ArgsLate(orbit, aday) ==
    [a |-> orbit.a, e |-> orbit.e, i |-> orbit.i, o |-> orbit.o,
     w |-> orbit.w, m |-> orbit.m,
     aday |-> [aday EXCEPT !.num = aday.num + aday.den]]

\* The arguments of one call.
Args(orbit, aday) ==
    [a |-> orbit.a, e |-> orbit.e, i |-> orbit.i, o |-> orbit.o,
     w |-> orbit.w, m |-> orbit.m, aday |-> aday]

\* Line 35: the mean motion n = k / sqrt(pow(a, 3)), a in hundredths of an
\* AU.  math.sqrt of a negative number raises ValueError, a float division
\* by zero raises ZeroDivisionError.
MeanMotion(a) ==
    LET a3 == pow3(Length(a))
        s == FixSqrt(a3, HalfLOne)
    IN IF a3 < 0 THEN Raise("ValueError")
       ELSE IF s = 0 THEN Raise("ZeroDivisionError")
       ELSE Return(MulDiv(k, LOne, s))

\* Line 38: M = m + n * aday, m an angle [turns, rad], aday a time in hours
\* [num, den] >= 0.
MeanAnomaly(m, n, aday) == AngleSum(m, AngleTimes(n, aday))

\* Line 50: the true anomaly v = 2 * atan(sqrt((1 + e) / (1 - e)) * tan(E / 2)).
TrueAnomaly(ecc, Ev) ==
    LET q == Ratio(One + ecc, One - ecc)
    IN IF q.den = 0 THEN Raise("ZeroDivisionError")
       ELSE IF RatioNegative(q) THEN Raise("ValueError")
       ELSE Eval(RatioMul(RatioSqrt(q), TanHalf(Ev)),
                 LAMBDA t : Return(2 * atan(t)))

\* Line 51: the radius r = a * (1 - pow(e, 2)) / (1 + e * cos(v)).
Radius(a, ecc, nu) ==
    LET d == One + Mul(ecc, cos(nu))
    IN IF d = 0 THEN Raise("ZeroDivisionError")
       ELSE Return(Sgn(d) * SMulDiv(Length(a), One - Mul(ecc, ecc), Abs(d)))

\* Lines 54-57: the cartesian coordinates, times AU_MULTIPLIER.
Coordinates(r, i, o, w, nu) ==
    LET p == w + o
        u == nu + p - o
        x == SMulDiv(r, Mul(cos(o), cos(u))
                        - Mul(Mul(sin(o), sin(u)), cos(i)), One)
        y == SMulDiv(r, Mul(sin(o), cos(u))
                        + Mul(Mul(cos(o), sin(u)), cos(i)), One)
        z == SMulDiv(r, Mul(sin(u), sin(i)), One)
    IN <<SMulDiv(x, AU_MULTIPLIER, LOne),
         SMulDiv(y, AU_MULTIPLIER, LOne),
         SMulDiv(z, AU_MULTIPLIER, LOne)>>

-----------------------------------------------------------------------------
(* calculate_orbital_period, lines 60-68 *)

\* third_law = 0.000007495, line 67, in units of 1e-9.
third_law == 7495

\* A fault to tell apart from line 68: the period kept in 15 bits.
calculate_orbital_period_narrow(a) ==
    [kind |-> "return",
     val |-> ISqrt(MulDiv(a * a, a * 1000, third_law)) % 32768]

\* a in hundredths of an AU: pow(a, 3) / third_law is
\* (a^3 / 10^6) * (10^9 / third_law).  int() of a square root is its floor.
calculate_orbital_period(a) ==
    IF a < 0 THEN Raise("ValueError")
    ELSE Return(ISqrt(MulDiv(a * a, a * 1000, third_law)))

-----------------------------------------------------------------------------
(* get_current_adalia_day, lines 71-87 *)

Timestamp(y, mo, d, h, mi, s) ==
    [year |-> y, month |-> mo, day |-> d, hour |-> h, minute |-> mi,
     second |-> s]

\* Orbit day zero, line 8.
START_ORBIT_TIMESTAMP == Timestamp(2021, 1, 1, 0, 0, 0)
\* Adalia day zero ("The Arrival"), line 9.
START_ARRIVAL_TIMESTAMP == Timestamp(2021, 4, 17, 14, 0, 0)

\* Days from 1970-01-01 to a date of the Gregorian calendar (year >= 1).
DaysFromCivil(y, mo, d) ==
    LET yy == IF mo <= 2 THEN y - 1 ELSE y
        era == yy \div 400
        yoe == yy - era * 400
        mp == IF mo > 2 THEN mo - 3 ELSE mo + 9
        doy == (153 * mp + 2) \div 5 + d - 1
        doe == yoe * 365 + yoe \div 4 - yoe \div 100 + doy
    IN era * 146097 + doe - 719468

\* pendulum.parse of a timestamp with offset +00:00: the instant, in seconds
\* since 1970-01-01T00:00:00Z.
parse(ts) ==
    DaysFromCivil(ts.year, ts.month, ts.day) * 86400
    + ts.hour * 3600 + ts.minute * 60 + ts.second

\* A fault to tell apart from lines 79-81: the two timestamps exchanged.
EpochSwapped(display_day) ==
    IF display_day THEN START_ORBIT_TIMESTAMP ELSE START_ARRIVAL_TIMESTAMP

\* The timestamp a call uses, lines 79-81.
EpochFor(display_day) ==
    IF display_day THEN START_ARRIVAL_TIMESTAMP ELSE START_ORBIT_TIMESTAMP

\* floor(log2(q)) for 1 <= q < 2^31.
Log2(q) == Cardinality({j \in 1..30 : 2^j <= q})

\* 2^s mod d, for d * d < 2^31.
RECURSIVE Pow2Mod(_, _)
Pow2Mod(s, d) ==
    IF s <= 30 THEN (2^s) % d
    ELSE (((2^30) % d) * Pow2Mod(s - 30, d)) % d

\* (n * 2^s) mod d.
ShiftMod(n, s, d) == ((n % d) * Pow2Mod(s, d)) % d

\* Is floor(n * 2^s / d) odd?  (s >= 1)
OddAt(n, s, d) == ((2 * ShiftMod(n, s - 1, d)) \div d) % 2 = 1

\* Round to nearest, ties to even: is a mantissa with the remainder r / d
\* below it rounded up?
RoundsUp(r, d, odd) == 2 * r > d \/ (2 * r = d /\ odd)

\* A double has 52 mantissa bits after the leading one.
MantissaBits == 52

\* The double total_seconds / 60 / 60 of line 86, for a whole number of
\* seconds total_seconds >= 3600 (itself a double): two divisions, each
\* rounded.  The result is the real number
\*     num / den + err / (den * 2^exp),
\* where 2^-exp is the spacing of the doubles around it.
\*   first division:  total_seconds / 60 has s1 bits after the binary
\*     point; what it is rounded by is e1 / 60 units of 2^-s1.
\*   second division: in units of 2^-s2 the quotient is
\*     Y + (rho + e1 * 2^(s2 - s1)) / 3600 with Y whole, rounded again.
DivideTwice(total_seconds) ==
    LET n == total_seconds
        s1 == MantissaBits - Log2(n \div 60)
        r1 == ShiftMod(n, s1, 60)
        e1 == (IF RoundsUp(r1, 60, OddAt(n, s1, 60)) THEN 60 ELSE 0) - r1
        s2 == MantissaBits - Log2(n \div (60 * 60))
        rho == ShiftMod(n, s2, 60 * 60)
        phi == rho + e1 * 2^(s2 - s1)
        low == phi \div (60 * 60)
        odd == OddAt(n, s2, 60 * 60) = (low % 2 = 0)
        up == IF RoundsUp(phi % (60 * 60), 60 * 60, odd) THEN 1 ELSE 0
    IN [num |-> n, den |-> 60 * 60,
        err |-> (low + up) * (60 * 60) - rho, exp |-> s2]

\* current_time is what pendulum.now() returned, a whole number of seconds
\* at least an hour after the epoch.
get_current_adalia_day(display_day, current_time) ==
    LET start_time == parse(EpochFor(display_day))
        total_seconds == current_time - start_time
    IN DivideTwice(total_seconds)

\* Is the double y greater than the double x by exactly 1?
ExactlyOneMore(x, y) ==
    LET low == IF x.exp < y.exp THEN x.exp ELSE y.exp
    IN /\ y.den = x.den
       /\ y.num = x.num + x.den
       /\ y.err * 2^(x.exp - low) = x.err * 2^(y.exp - low)

\* Is the double x within `ulps` spacings of the real number num / den?
WithinUlps(x, nm, dn, ulps) ==
    /\ x.num = nm
    /\ x.den = dn
    /\ Abs(x.err) <= ulps * x.den

-----------------------------------------------------------------------------
(* pandas: a table is [index, columns], columns a function from the       *)
(* column's name to the sequence of its values                             *)

\* dict.get(key, default).
Get(d, key, default) == IF key \in DOMAIN d THEN d[key] ELSE default

\* Lines 118-123: the dictionary kept of one line of the file.
Unpack(line) ==
    [i |-> line["i"], r |-> line["r"], baseName |-> line["baseName"],
     orbital |-> line["orbital"], customName |-> Get(line, "customName", "")]

\* Lines 115-123.
ReadLines(f) == [j \in 1..Len(f) |-> Unpack(f[j])]

\* pd.DataFrame(rows), line 125: the columns are the keys of the rows, a
\* table of no rows has no columns; the index is 0, 1, ...
DataFrame(rows) ==
    [index |-> [j \in 1..Len(rows) |-> j - 1],
     columns |-> [c \in (IF rows = <<>> THEN {} ELSE DOMAIN rows[1]) |->
                     [j \in 1..Len(rows) |-> rows[j][c]]]]

\* df[name] = values.
SetColumn(frame, name, values) ==
    [frame EXCEPT !.columns =
        [c \in DOMAIN frame.columns \cup {name} |->
            IF c = name THEN values ELSE frame.columns[c]]]

\* df.set_index(name, inplace=True, drop=False), line 127.
set_index(frame, name) == [frame EXCEPT !.index = frame.columns[name]]

\* A whole number as numpy's int16 holds it: modulo 2^16.
Int16(x) == ((x + 32768) % 65536) - 32768
\* Every whole number of the model is in the range of int32.
Int32(x) == x

Cast(dtype, x) == IF dtype = "int16" THEN Int16(x) ELSE Int32(x)

\* df.astype(dtypes), lines 129-131.
astype(frame, dtypes) ==
    [frame EXCEPT !.columns =
        [c \in DOMAIN frame.columns |->
            IF c \in DOMAIN dtypes
            THEN [j \in 1..Len(frame.columns[c]) |->
                     Cast(dtypes[c], frame.columns[c][j])]
            ELSE frame.columns[c]]]

\* The first call that raises decides a list comprehension, otherwise it is
\* the list of the values.
Comprehension(outs) ==
    IF \E j \in 1..Len(outs) : outs[j].kind = "raise"
    THEN outs[CHOOSE j \in 1..Len(outs) :
                 /\ outs[j].kind = "raise"
                 /\ \A h \in 1..(j - 1) : outs[h].kind # "raise"]
    ELSE Return([j \in 1..Len(outs) |-> outs[j].val])

\* Line 126: [calculate_orbital_period(x['a']) for x in df['orbital']].
Periods(orbital) ==
    Comprehension([j \in 1..Len(orbital) |->
                      calculate_orbital_period(orbital[j].a)])

-----------------------------------------------------------------------------
(* What the functions are called with *)

\* x thousandths, in units of 1/One.
Milli(x) == (One \div 1000) * x

\* The orbital elements of a record: a in hundredths of an AU, e, i, o, w in
\* units of 1/One, m an angle [turns, rad].
Orbit(a, ecc, i, o, w, m) ==
    [a |-> a, e |-> ecc, i |-> i, o |-> o, w |-> w, m |-> m]

OrbitInner ==
    Orbit(100, Milli(100), Milli(50), Milli(1200), Milli(2500),
          Angle(0, Milli(700)))
OrbitOuter ==
    Orbit(250, Milli(300), Milli(400), Milli(3000), Milli(600),
          Angle(0, Milli(4100)))
\* e = 1.0
OrbitParabolic ==
    Orbit(100, One, Milli(50), Milli(1200), Milli(2500), Angle(0, Milli(550)))
\* e = -0.1
OrbitNegative ==
    Orbit(100, -Milli(100), Milli(50), Milli(1200), Milli(2500),
          Angle(0, Milli(700)))
\* a = 0
OrbitNoAxis ==
    Orbit(0, Milli(100), Milli(50), Milli(1200), Milli(2500),
          Angle(0, Milli(700)))
\* a = 21 AU
OrbitFar ==
    Orbit(2100, Milli(50), Milli(20), Milli(100), Milli(200),
          Angle(0, Milli(3000)))

\* A line of the file, unpacked by ujson.loads; customName is optional.
Line(id, radius, name, orbit) ==
    [i |-> id, r |-> radius, baseName |-> name, orbital |-> orbit]
Named(line, custom) ==
    [c \in DOMAIN line \cup {"customName"} |->
        IF c = "customName" THEN custom ELSE line[c]]

Asteroids ==
    {Named(Line(1, 375142, "Adalia Prime", OrbitInner), "Home"),
     Line(2, 8700, "Outer", OrbitOuter),
     Line(3, 1200, "Parabolic", OrbitParabolic),
     Line(4, 1300, "Negative", OrbitNegative),
     Line(5, 1400, "NoAxis", OrbitNoAxis),
     Line(6, 1500, "Far", OrbitFar)}

\* A file has at most MaxLines lines.
MaxLines == 2
Files == UNION {[1..n -> Asteroids] : n \in 0..MaxLines}

\* The table a caller of apply_position_to_df passes: the five columns of
\* lines 119-123, with or without rows.
Batch(f) ==
    [index |-> [j \in 1..Len(f) |-> j - 1],
     columns |-> [c \in {"i", "r", "baseName", "orbital", "customName"} |->
                     [j \in 1..Len(f) |-> Unpack(f[j])[c]]]]

Nothing == [kind |-> "none"]
NoTable == [index |-> <<>>, columns |-> <<>>]

\* The clock starts at the Arrival and moves on by an hour at a time, at
\* most MaxTicks times.
Now0 == parse(START_ARRIVAL_TIMESTAMP)
TickSeconds == 60 * 60
MaxTicks == 2

-----------------------------------------------------------------------------
(* load_asteroids and apply_position_to_df, step by step *)

FrameIdle ==
    /\ args = Nothing /\ M = Angle(0, 0) /\ e = 0 /\ E = Angle(0, 0)
    /\ last_diff = 0 /\ v = 0 /\ iters = 0 /\ seen = {} /\ spc = "idle"
BatchIdle ==
    /\ df = NoTable /\ given = NoTable /\ curr_aday = Nothing
    /\ clockReads = 0 /\ idx = 0 /\ acc = <<>> /\ trace = <<>>
AloneIdle == calls = <<>> /\ queries = <<>> /\ answers = <<>>

Init ==
    /\ now = Now0 /\ ticks = 0
    /\ entry \in {"load_asteroids", "apply_position_to_df"}
    /\ file \in Files
    /\ pc = IF entry = "load_asteroids" THEN "load" ELSE "apply"
    /\ outcome = Nothing
    /\ df = IF entry = "load_asteroids" THEN NoTable ELSE Batch(file)
    /\ given = NoTable /\ curr_aday = Nothing /\ clockReads = 0
    /\ idx = 0 /\ acc = <<>> /\ trace = <<>>
    /\ FrameIdle /\ AloneIdle

\* Time passes.
Tick ==
    /\ pc \notin {"done", "raised"}
    /\ ticks < MaxTicks
    /\ now' = now + TickSeconds
    /\ ticks' = ticks + 1
    /\ UNCHANGED <<callVars, batchVars, solverVars, frameVars, aloneVars>>

\* An exception leaves every function on the stack.
Fails(exc) == pc' = "raised" /\ outcome' = Raise(exc)

\* Lines 115-125.
ReadFile ==
    /\ pc = "load"
    /\ df' = DataFrame(ReadLines(file))
    /\ pc' = "periods"
    /\ UNCHANGED <<entry, file, outcome, given, curr_aday, clockReads, idx,
                   acc, trace>>
    /\ UNCHANGED <<worldVars, solverVars, frameVars, aloneVars>>

\* Line 126.
OrbitalPeriods ==
    /\ pc = "periods"
    /\ IF "orbital" \notin DOMAIN df.columns
       THEN Fails("KeyError") /\ df' = df
       ELSE LET out == Periods(df.columns["orbital"])
            IN IF out.kind = "raise"
               THEN Fails(out.exc) /\ df' = df
               ELSE /\ df' = SetColumn(df, "orbital.T", out.val)
                    /\ pc' = "set_index"
                    /\ outcome' = outcome
    /\ UNCHANGED <<entry, file, given, curr_aday, clockReads, idx, acc,
                   trace>>
    /\ UNCHANGED <<worldVars, solverVars, frameVars, aloneVars>>

\* Line 127.
SetIndex ==
    /\ pc = "set_index"
    /\ df' = set_index(df, "i")
    /\ pc' = "astype"
    /\ UNCHANGED <<entry, file, outcome, given, curr_aday, clockReads, idx,
                   acc, trace>>
    /\ UNCHANGED <<worldVars, solverVars, frameVars, aloneVars>>

\* Lines 129-131.
AsType ==
    /\ pc = "astype"
    /\ df' = astype(df, ("i" :> "int32") @@ ("r" :> "int32")
                        @@ ("orbital.T" :> "int16"))
    /\ pc' = "apply"
    /\ UNCHANGED <<entry, file, outcome, given, curr_aday, clockReads, idx,
                   acc, trace>>
    /\ UNCHANGED <<worldVars, solverVars, frameVars, aloneVars>>

\* Line 97, and df['orbital'] of line 104.
ReadClock ==
    /\ pc = "apply"
    /\ given' = df
    /\ curr_aday' = get_current_adalia_day(FALSE, now)
    /\ clockReads' = clockReads + 1
    /\ IF "orbital" \in DOMAIN df.columns
       THEN pc' = "comprehension" /\ idx' = 1 /\ outcome' = outcome
       ELSE Fails("KeyError") /\ idx' = idx
    /\ UNCHANGED <<entry, file, df, acc, trace>>
    /\ UNCHANGED <<worldVars, solverVars, frameVars, aloneVars>>

\* A fault to tell apart from line 98: the list built back to front.
CollectInFront(list, x) == <<x>> \o list

\* The list a comprehension builds, one value at a time.
Collect(list, x) == Append(list, x)

\* Lines 98-104 call position_at_adalia_day for the next element; lines
\* 31-42 of the call.
CallPosition ==
    /\ pc = "comprehension" /\ spc = "idle"
    /\ idx <= Len(df.columns["orbital"])
    /\ LET x == df.columns["orbital"][idx]
           n == MeanMotion(x.a)
       IN /\ args' = Args(x, curr_aday)
          /\ IF n.kind = "raise"
             THEN /\ Fails(n.exc)
                  /\ UNCHANGED solverVars
             ELSE /\ M' = MeanAnomaly(x.m, n.val, curr_aday)
                  /\ e' = x.e
                  /\ E' = M'
                  /\ last_diff' = InitialDiff
                  /\ iters' = 0
                  /\ seen' = {}
                  /\ spc' = "loop"
                  /\ UNCHANGED <<pc, outcome>>
    /\ UNCHANGED <<entry, file, v, worldVars, batchVars, aloneVars>>

\* The loop body's runs are counted up to IterCap ("IterCap or more").
IterCap == 3

\* One pass through the body of the loop, lines 44-47.
LoopBody ==
    /\ spc = "loop"
    /\ LoopContinues(last_diff)
    /\ E' = KeplerStep(M, e, E)
    /\ last_diff' = StepDiff(E', E)
    /\ iters' = IF iters < IterCap THEN iters + 1 ELSE iters
    /\ seen' = seen \cup {E.rad}
    /\ UNCHANGED <<M, e, spc>>
    /\ UNCHANGED <<worldVars, callVars, batchVars, frameVars, aloneVars>>

\* The while test of line 44 fails: control passes to line 50.
LoopExit ==
    /\ spc = "loop"
    /\ ~LoopContinues(last_diff)
    /\ spc' = "done"
    /\ UNCHANGED <<M, e, E, last_diff, iters, seen>>
    /\ UNCHANGED <<worldVars, callVars, batchVars, frameVars, aloneVars>>

\* Line 50.
Anomaly ==
    /\ pc = "comprehension" /\ spc = "done"
    /\ LET out == TrueAnomaly(e, E)
       IN IF out.kind = "raise"
          THEN Fails(out.exc) /\ spc' = "idle" /\ v' = v
          ELSE v' = out.val /\ spc' = "polar" /\ UNCHANGED <<pc, outcome>>
    /\ UNCHANGED <<entry, file, args, M, e, E, last_diff, iters, seen>>
    /\ UNCHANGED <<worldVars, batchVars, aloneVars>>

\* Lines 51-57; the value joins the list of line 98.
Polar ==
    /\ pc = "comprehension" /\ spc = "polar"
    /\ LET r == Radius(args.a, e, v)
       IN IF r.kind = "raise"
          THEN Fails(r.exc) /\ UNCHANGED <<idx, acc, trace>>
          ELSE LET pos == Coordinates(r.val, args.i, args.o, args.w, v)
               IN /\ acc' = Collect(acc, pos)
                  /\ trace' = Append(trace, [args |-> args, value |-> pos])
                  /\ idx' = idx + 1
                  /\ UNCHANGED <<pc, outcome>>
    /\ spc' = "idle"
    /\ UNCHANGED <<entry, file, df, given, curr_aday, clockReads>>
    /\ UNCHANGED <<args, v, M, e, E, last_diff, iters, seen>>
    /\ UNCHANGED <<worldVars, aloneVars>>

\* The comprehension is through: df['pos'] is assigned, line 98, and the
\* table returned, lines 105 and 133.
AssignPos ==
    /\ pc = "comprehension" /\ spc = "idle"
    /\ idx > Len(df.columns["orbital"])
    /\ df' = SetColumn(df, "pos", acc)
    /\ outcome' = Return(df')
    /\ pc' = "done"
    /\ UNCHANGED <<entry, file, given, curr_aday, clockReads, idx, acc,
                   trace>>
    /\ UNCHANGED <<worldVars, solverVars, frameVars, aloneVars>>

Next ==
    \/ Tick
    \/ ReadFile
    \/ OrbitalPeriods
    \/ SetIndex
    \/ AsType
    \/ ReadClock
    \/ CallPosition
    \/ LoopBody
    \/ LoopExit
    \/ Anomaly
    \/ Polar
    \/ AssignPos

Spec == Init /\ [][Next]_vars

-----------------------------------------------------------------------------
(* The loop of lines 41-47 on its own, over a grid of M and e *)

\* Eccentricities j / EDen, 0 <= j < EDen.
EDen == 10
\* Phases of M: NPhase points of [0, 2*pi).
NPhase == 12
\* Whole turns of M: [-50, 50] is turns -8..7, and one binade far out.
BigTurns == 107240200

SolverE == {(One \div EDen) * j : j \in 0..(EDen - 1)}
SolverTurns == {-8, -1, 0, 7, BigTurns}
SolverM ==
    {Angle(t, (TwoPi \div NPhase) * j + 1000 * j) :
        t \in SolverTurns, j \in 0..(NPhase - 1)}

InitSolver ==
    /\ M \in SolverM
    /\ e \in SolverE
    /\ E = M
    /\ last_diff = InitialDiff
    /\ iters = 0
    /\ seen = {}
    /\ spc = "loop"
    /\ args = Nothing /\ v = 0
    /\ now = Now0 /\ ticks = 0
    /\ entry = "position_at_adalia_day" /\ file = <<>> /\ pc = "call"
    /\ outcome = Nothing
    /\ BatchIdle /\ AloneIdle

NextSolver == LoopBody \/ LoopExit

SpecSolver == InitSolver /\ [][NextSolver]_vars

-----------------------------------------------------------------------------
(* get_current_adalia_day on its own *)

\* The clock starts StartHours after the Arrival and up to MaxMinutes
\* minutes; at most MaxCalls calls are followed.
StartHours == 127
MaxMinutes == 6
MaxCalls == 2

InitTime ==
    /\ now \in {Now0 + StartHours * (60 * 60) + 60 * j : j \in 0..MaxMinutes}
    /\ ticks = 0
    /\ entry = "get_current_adalia_day" /\ file = <<>> /\ pc = "call"
    /\ outcome = Nothing
    /\ BatchIdle /\ FrameIdle /\ AloneIdle

\* One call, lines 79-87.
TimeCall(display_day) ==
    /\ entry = "get_current_adalia_day"
    /\ Len(calls) < MaxCalls
    /\ calls' = Append(calls,
                       [display_day |-> display_day, at |-> now,
                        value |-> get_current_adalia_day(display_day, now)])
    /\ UNCHANGED <<queries, answers>>
    /\ UNCHANGED <<worldVars, callVars, batchVars, solverVars, frameVars>>

NextTime == Tick \/ \E display_day \in BOOLEAN : TimeCall(display_day)

SpecTime == InitTime /\ [][NextTime]_vars

-----------------------------------------------------------------------------
(* calculate_orbital_period on its own *)

\* Two calls, with a up to MaxA hundredths of an AU and up to MaxGap
\* hundredths apart.
MaxA == 2200
MaxGap == 2

InitPeriod ==
    /\ queries \in {<<a, a + g>> : a \in 0..MaxA, g \in 1..MaxGap}
    /\ answers = <<>>
    /\ calls = <<>>
    /\ now = Now0 /\ ticks = 0
    /\ entry = "calculate_orbital_period" /\ file = <<>> /\ pc = "call"
    /\ outcome = Nothing
    /\ BatchIdle /\ FrameIdle

\* One call, lines 60-68.
PeriodCall ==
    /\ entry = "calculate_orbital_period"
    /\ Len(answers) < Len(queries)
    /\ answers' =
           Append(answers, calculate_orbital_period(queries[Len(answers) + 1]))
    /\ UNCHANGED <<calls, queries>>
    /\ UNCHANGED <<worldVars, callVars, batchVars, solverVars, frameVars>>

NextPeriod == PeriodCall

SpecPeriod == InitPeriod /\ [][NextPeriod]_vars

-----------------------------------------------------------------------------
(* Properties *)

\* The orbits the specification admits: a > 0 and 0 <= e < 1.
InDomain(orbit) == orbit.a > 0 /\ orbit.e >= 0 /\ orbit.e < One

\* The two eccentricities C1 names: 1.0 and -0.1.
Rejected(ecc) == ecc = One \/ ecc = -Milli(100)

\* C1.  Domain rejection: a call of position_at_adalia_day with e = 1.0 or
\* e = -0.1 raises DomainError and a call of calculate_orbital_period with
\* a = 0 raises DomainError; no value is returned in these cases.  Here: no
\* call of position_at_adalia_day that returned had such an e, a call with
\* such an e that raised raised DomainError, and no period was stored for
\* an a = 0.
C1_DomainRejection ==
    /\ \A j \in 1..Len(trace) : ~Rejected(trace[j].args.e)
    /\ (pc = "raised" /\ args # Nothing /\ Rejected(args.e))
           => outcome.exc = "DomainError"
    /\ "orbital.T" \in DOMAIN df.columns
           => \A j \in 1..Len(df.columns["orbital"]) :
                  df.columns["orbital"][j].a # 0

\* C2.  Failure isolation in apply_position_to_df: when the transform of
\* one element fails, every other element of the batch still gets its
\* position.  Here: once apply_position_to_df has ended, by a return or by
\* an exception, the table has a column 'pos' with the position of every
\* element whose orbit is in the domain.
C2_FailureIsolation ==
    (pc \in {"done", "raised"} /\ clockReads = 1
         /\ "orbital" \in DOMAIN given.columns)
        => \A j \in 1..Len(given.columns["orbital"]) :
               InDomain(given.columns["orbital"][j])
                   => /\ "pos" \in DOMAIN df.columns
                      /\ \E h \in 1..Len(trace) :
                             /\ trace[h].args =
                                    Args(given.columns["orbital"][j], curr_aday)
                             /\ df.columns["pos"][j] = trace[h].value

\* C3.  In a run of apply_position_to_df the clock is read exactly once,
\* before the transform of any element is started, and every element is
\* transformed with that one time, whatever the size of the batch: the
\* clock is never read twice; once a transform has started or the function
\* has returned it has been read; the time every call was and is given is
\* curr_aday.
C3_ClockReadOnce ==
    /\ clockReads <= 1
    /\ (pc \in {"comprehension", "done"} \/ args # Nothing \/ trace # <<>>)
           => clockReads = 1
    /\ args # Nothing => args.aday = curr_aday
    /\ \A j \in 1..Len(trace) : trace[j].args.aday = curr_aday

\* C3 happens: a batch of two elements is through, and the clock has moved
\* on since it was read.
C3_Witness ==
    /\ pc = "done" /\ Len(trace) = 2 /\ clockReads = 1
    /\ now - parse(START_ORBIT_TIMESTAMP) > curr_aday.num

\* Is the angle A within [-50, 50] radians?  50 = 7 * 2*pi + R.
InClaimRange(A) ==
    LET R == 7 * (7 * One - TwoPi) + One
    IN \/ A.turns \in -7..6
       \/ A.turns = 7 /\ A.rad <= R
       \/ A.turns = -8 /\ A.rad >= TwoPi - R

\* E - e * sin(E) - M, in units of 1/One.
Residual == FlSub(E, M) - Mul(e, sin(E.rad))

\* C4.  For e in [0, 1) and M in [-50, 50] the E the loop ends with
\* satisfies Kepler's equation within 1e-6: |E - e*sin(E) - M| <= 1e-6.
C4_Residual ==
    (spc = "done" /\ InClaimRange(M) /\ e >= 0 /\ e < One)
        => Abs(Residual) <= One \div 1000000

\* C4 happens: the loop has ended after IterCap passes or more, for an M
\* in the eighth turn and an e above one half.
C4_Witness ==
    /\ spc = "done" /\ InClaimRange(M) /\ M.turns = 7
    /\ 2 * e > One /\ iters = IterCap

\* C5 as stated.  calculate_orbital_period is strictly increasing over
\* a > 0: of two calls with 0 < a1 < a2 the second returns more.
C5_StrictlyIncreasing ==
    (Len(answers) = 2 /\ queries[1] > 0)
        => answers[1].val < answers[2].val

\* C5, amended.  calculate_orbital_period is non-decreasing over a > 0, and
\* its value T is the floor of sqrt(a^3 / 0.000007495):
\* T^2 <= a^3 / 0.000007495 < (T + 1)^2.
C5_NonDecreasing ==
    /\ \A j \in 1..Len(answers) :
           queries[j] > 0 =>
               LET x == MulDiv(queries[j] * queries[j], queries[j] * 1000,
                               third_law)
                   T == answers[j].val
               IN /\ answers[j].kind = "return"
                  /\ T >= 0
                  /\ T * T <= x
                  /\ (T + 1) * (T + 1) > x
    /\ (Len(answers) = 2 /\ queries[1] > 0)
           => answers[1].val <= answers[2].val

\* C5, amended, happens: two semi-major axes a1 < a2 with one period.
C5_Witness ==
    /\ Len(answers) = 2 /\ queries[1] > 0
    /\ answers[1].val = answers[2].val

\* C6 as stated.  For e = 0 the loop yields E == M and its body is not run.
C6_ZeroIterations ==
    (spc = "done" /\ e = 0) => (E = M /\ iters = 0)

\* C6, amended.  For e = 0 the loop yields E == M, and its body is run
\* exactly once.
C6_OneIteration ==
    (spc = "done" /\ e = 0) => (E = M /\ iters = 1 /\ last_diff = 0)

\* C6, amended, happens: the loop has ended for e = 0 and an M other than 0.
C6_Witness ==
    spc = "done" /\ e = 0 /\ iters = 1 /\ M.rad # 0 /\ M.turns # 0

\* C7.  apply_position_to_df produces one position per element, in the
\* order of the input: entry j of 'pos' is what position_at_adalia_day
\* returned for the a, e, i, o, w, m of element j and the shared time; no
\* other column, and no orbital value, is changed.
C7_OnePositionEach ==
    pc = "done" =>
        LET orbital == given.columns["orbital"]
            result == outcome.val
        IN /\ outcome.kind = "return"
           /\ result = df
           /\ DOMAIN result.columns = DOMAIN given.columns \cup {"pos"}
           /\ Len(result.columns["pos"]) = Len(orbital)
           /\ Len(trace) = Len(orbital)
           /\ \A j \in 1..Len(orbital) :
                  /\ trace[j].args = Args(orbital[j], curr_aday)
                  /\ result.columns["pos"][j] = trace[j].value
           /\ \A c \in DOMAIN given.columns :
                  result.columns[c] = given.columns[c]
           /\ result.index = given.index

\* C7 happens: load_asteroids has returned the table of a file of two
\* different lines.
C7_Witness ==
    /\ pc = "done" /\ entry = "load_asteroids"
    /\ Len(file) = 2 /\ file[1] # file[2]
    /\ df.columns["pos"][1] # df.columns["pos"][2]

\* Two calls of get_current_adalia_day with one flag, the second an hour
\* after the first.
HourApart(c1, c2) ==
    /\ c1.display_day = c2.display_day
    /\ c2.at = c1.at + 60 * 60

C9_Terminates ==
    /\ ~(spc = "loop" /\ LoopContinues(last_diff) /\ E.rad \in seen)
    /\ spc = "done" => last_diff <= Tol

\* C10.  The narrowing of 'orbital.T' to int16 does not change the period:
\* for every record with a > 0 the value of the column is
\* calculate_orbital_period(a).
C10_NarrowingKeepsPeriod ==
    "orbital.T" \in DOMAIN df.columns
        => \A j \in 1..Len(df.columns["orbital"]) :
               df.columns["orbital"][j].a > 0
                   => df.columns["orbital.T"][j] =
                          calculate_orbital_period(
                              df.columns["orbital"][j].a).val

=============================================================================
